---- MODULE Spec2Model ----
(***************************************************************************)
(* A model of src/visualizer.py: the Visualizer class, its two-level badge *)
(* cache (badge_cache dict + <output_dir>/.badge_cache files), the badge   *)
(* URL builder, the numeric label formatter and the five chart functions.  *)
(*                                                                         *)
(* Strings the code edits character by character (language names) are      *)
(* sequences of one-character strings; the fixed pieces of an f-string are *)
(* kept as one token each, so a URL is the concatenation, in order, of the *)
(* pieces the f-string concatenates.                                       *)
(***************************************************************************)
EXTENDS Integers, Sequences, FiniteSets, TLC

VARIABLES
    languages,      \* self.languages: the table loaded from languages.json
    dark_mode,      \* self.dark_mode
    badge_cache,    \* self.badge_cache: dict language -> image
    disk,           \* files in <output_dir>/.badge_cache: filename -> content
    requests,       \* number of HTTP GETs issued so far
    rcParams,       \* plt.rcParams, global to the process: the colors in it
    last            \* the last call made on the Visualizer and what it returned

vars == <<languages, dark_mode, badge_cache, disk, requests, rcParams, last>>

----------------------------------------------------------------------------
(* Bounds of the model *)

\* no more HTTP requests than this are issued over a run
MaxRequests == 2

\* a chart call stops short of more HTTP requests than this over a run
MaxChartRequests == 6

\* the longest list a chart function is given
MaxData == 16

----------------------------------------------------------------------------
(* Language names *)

CSharp == <<"C", "#">>
ObjectiveC == <<"O", "b", "j", "e", "c", "t", "i", "v", "e", "-", "C">>
VisualBasic == <<"V", "i", "s", "u", "a", "l", " ", "B", "a", "s", "i", "c", " ", ".", "N", "E", "T">>
ASpaceB == <<"A", " ", "B">>
ASlashB == <<"A", "/", "B">>

LanguageList == <<CSharp, ObjectiveC, VisualBasic, ASpaceB, ASlashB>>

Languages == {LanguageList[i] : i \in 1..Len(LanguageList)}

\* str.replace(old, new) for a one-character old and new
Replace(s, old, new) == [i \in 1..Len(s) |-> IF s[i] = old THEN new ELSE s[i]]

----------------------------------------------------------------------------
(* languages.json *)

\* the tables languages.json may hold; the first is what _load_languages
\* returns when the file cannot be read or parsed
LanguageTables ==
    { << >>,
      (CSharp :> [color |-> "#178600", badge_color |-> "239120", logo |-> "csharp"])
        @@ (ObjectiveC :> [color |-> "#438eff", badge_color |-> "438eff"])
        @@ (VisualBasic :> [color |-> "#945db7"])
        @@ (ASpaceB :> [color |-> "#aaaaaa", logo |-> "alogo"]),
      (CSharp :> << >>)
        @@ (ObjectiveC :> [color |-> "#438eff", badge_color |-> "", logo |-> "apple"])
        @@ (VisualBasic :> [color |-> "#945db7", badge_color |-> "945db7", logo |-> ""])
        @@ (ASpaceB :> [badge_color |-> "aaaaaa", logo |-> "alogo"])
        @@ (ASlashB :> [color |-> "#bbbbbb", badge_color |-> "bbbbbb", logo |-> "blogo"]) }

\* dict.get(key): the value, or None (the empty string stands for None: both
\* are falsy, and the code only tests the truth of what it gets)
Get(d, key) == IF key \in DOMAIN d THEN d[key] ELSE ""

\* self.languages.get(language, {})
LangConfig(table, language) == IF language \in DOMAIN table THEN table[language] ELSE << >>

NoUrl == << >>

get_badge_url_no_logo(table, language) ==
    LET lang_config == LangConfig(table, language)
        lang_name == Replace(language, " ", "_")
    IN  IF lang_config # << >> /\ Get(lang_config, "badge_color") # ""
        THEN <<"https://img.shields.io/badge/">> \o lang_name
                 \o <<"-", lang_config["badge_color"], ".png", "?style=for-the-badge">>
        ELSE <<"https://img.shields.io/badge/">> \o lang_name
                 \o <<"-", "888888", ".png", "?style=for-the-badge">>

get_badge_url_logo_first(table, language) ==
    LET lang_config == LangConfig(table, language)
        lang_name == Replace(language, " ", "_")
        logo == Get(lang_config, "logo")
    IN  IF logo # ""
        THEN <<"https://img.shields.io/badge/">> \o lang_name
                 \o <<"-", IF Get(lang_config, "badge_color") # ""
                           THEN lang_config["badge_color"] ELSE "888888", ".png",
                      "?style=for-the-badge", "&logo=", logo, "&logoColor=white">>
        ELSE get_badge_url_no_logo(table, language)

get_badge_url(table, language) ==
    LET lang_config == LangConfig(table, language)
        lang_name == Replace(language, " ", "_")
    IN  IF lang_config # << >> /\ Get(lang_config, "badge_color") # ""
        THEN LET color == lang_config["badge_color"]
                 logo == Get(lang_config, "logo")
             IN  IF logo # ""
                 THEN <<"https://img.shields.io/badge/">> \o lang_name
                          \o <<"-", color, ".png">>
                          \o <<"?style=for-the-badge", "&logo=", logo, "&logoColor=white">>
                 ELSE <<"https://img.shields.io/badge/">> \o lang_name
                          \o <<"-", color, ".png">>
                          \o <<"?style=for-the-badge">>
        ELSE LET default_color == "888888"
             IN  <<"https://img.shields.io/badge/">> \o lang_name
                     \o <<"-", default_color, ".png">>
                     \o <<"?style=for-the-badge">>

----------------------------------------------------------------------------
(* The badge cache *)

None == [kind |-> "none"]
Corrupt == [kind |-> "corrupt"]

\* the image the badge service renders for a URL: its content is a function
\* of the URL, and of nothing else
Badge(url) == [kind |-> "image", url |-> url]

safe_name_spaces_only(language) == Replace(language, " ", "_")

safe_name(language) == Replace(Replace(language, " ", "_"), "/", "_")

\* the name of the cache file inside self.badge_cache_dir
badge_file(language) == safe_name(language) \o <<".png">>

\* Image.open(badge_path) succeeds
Decodable(file) == file.kind = "image"

\* what requests.get, Image.open and img.save can do in one fetch
Outcomes == {"ok", "transport", "status", "bad_body", "save_fail", "save_partial"}

\* os.path.exists(badge_path) and Image.open(badge_path) does not raise
DiskHit(c, language) ==
    /\ badge_file(language) \in DOMAIN c.disk
    /\ Decodable(c.disk[badge_file(language)])

\* the call goes as far as requests.get
NeedsFetch(c, language) ==
    /\ language \notin DOMAIN c.badge_cache
    /\ ~DiskHit(c, language)

Fetch_no_raise_for_status(c, language, o) ==
    LET url == get_badge_url(c.languages, language)
        img == Badge(url)
        path == badge_file(language)
    IN  IF o \in {"ok", "status"}
        THEN [badge_cache |-> (language :> img) @@ c.badge_cache,
              disk |-> (path :> img) @@ c.disk,
              requests |-> c.requests + 1, languages |-> c.languages,
              ret |-> img, url |-> url]
        ELSE [badge_cache |-> c.badge_cache, disk |-> c.disk,
              requests |-> c.requests + 1, languages |-> c.languages,
              ret |-> None, url |-> url]

Fetch_memory_before_save(c, language, o) ==
    LET url == get_badge_url(c.languages, language)
        img == Badge(url)
        path == badge_file(language)
        asked == [c EXCEPT !.requests = @ + 1]
    IN  CASE o = "ok" -> [badge_cache |-> (language :> img) @@ c.badge_cache,
                          disk |-> (path :> img) @@ c.disk,
                          requests |-> asked.requests, languages |-> c.languages,
                          ret |-> img, url |-> url]
          [] o = "save_partial" -> [badge_cache |-> (language :> img) @@ c.badge_cache,
                          disk |-> (path :> Corrupt) @@ c.disk,
                          requests |-> asked.requests, languages |-> c.languages,
                          ret |-> None, url |-> url]
          [] o = "save_fail" -> [badge_cache |-> (language :> img) @@ c.badge_cache,
                          disk |-> c.disk,
                          requests |-> asked.requests, languages |-> c.languages,
                          ret |-> None, url |-> url]
          [] OTHER -> [badge_cache |-> c.badge_cache, disk |-> c.disk,
                          requests |-> asked.requests, languages |-> c.languages,
                          ret |-> None, url |-> url]

\* lines 134-146, with c = [badge_cache, disk, requests, languages] before the
\* call; the result adds ret (the returned image or None) and url (the URL
\* requested)
Fetch(c, language, o) ==
    LET url == get_badge_url(c.languages, language)
        img == Badge(url)
        path == badge_file(language)
        asked == [c EXCEPT !.requests = @ + 1]
    IN  CASE o = "ok" ->
               \* img.save(badge_path); self.badge_cache[language] = img
               [badge_cache |-> (language :> img) @@ c.badge_cache,
                disk |-> (path :> img) @@ c.disk,
                requests |-> asked.requests, languages |-> c.languages,
                ret |-> img, url |-> url]
          [] o = "save_partial" ->
               \* img.save raises OSError after it has opened the file for
               \* writing: what it wrote so far stays
               [badge_cache |-> c.badge_cache,
                disk |-> (path :> Corrupt) @@ c.disk,
                requests |-> asked.requests, languages |-> c.languages,
                ret |-> None, url |-> url]
          [] OTHER ->
               \* requests.get or raise_for_status raises RequestException,
               \* Image.open raises OSError, or img.save cannot open the file
               [badge_cache |-> c.badge_cache, disk |-> c.disk,
                requests |-> asked.requests, languages |-> c.languages,
                ret |-> None, url |-> url]

download_badge_no_disk_check(c, language, o) ==
    IF language \in DOMAIN c.badge_cache
    THEN [badge_cache |-> c.badge_cache, disk |-> c.disk, requests |-> c.requests,
          languages |-> c.languages, ret |-> c.badge_cache[language], url |-> NoUrl]
    ELSE Fetch(c, language, o)

download_badge_trust_file(c, language, o) ==
    IF language \in DOMAIN c.badge_cache
    THEN [badge_cache |-> c.badge_cache, disk |-> c.disk, requests |-> c.requests,
          languages |-> c.languages, ret |-> c.badge_cache[language], url |-> NoUrl]
    ELSE IF badge_file(language) \in DOMAIN c.disk
    THEN LET img == c.disk[badge_file(language)]
         IN  [badge_cache |-> (language :> img) @@ c.badge_cache,
              disk |-> c.disk, requests |-> c.requests, languages |-> c.languages,
              ret |-> img, url |-> NoUrl]
    ELSE Fetch(c, language, o)

\* _download_badge(language), lines 119-146
download_badge(c, language, o) ==
    IF language \in DOMAIN c.badge_cache
    THEN [badge_cache |-> c.badge_cache, disk |-> c.disk, requests |-> c.requests,
          languages |-> c.languages, ret |-> c.badge_cache[language], url |-> NoUrl]
    ELSE IF DiskHit(c, language)
    THEN LET img == c.disk[badge_file(language)]
         IN  [badge_cache |-> (language :> img) @@ c.badge_cache,
              disk |-> c.disk, requests |-> c.requests, languages |-> c.languages,
              ret |-> img, url |-> NoUrl]
    ELSE Fetch(c, language, o)

\* the cache as the next call finds it
Cache == [badge_cache |-> badge_cache, disk |-> disk, requests |-> requests,
          languages |-> languages]

FileKind(d, language) ==
    IF badge_file(language) \in DOMAIN d THEN d[badge_file(language)].kind ELSE "none"

----------------------------------------------------------------------------
(* Numbers and the numeric label formatter *)

\* A value of a StatEntry is a Python int or a non-negative Python float.
\* Both are kept exactly: w is the whole part and f the fraction in units of
\* 10^-5 (0 for an int).
PyInt(n) == [t |-> "int", w |-> n, f |-> 0]
PyFloat(whole, frac) == [t |-> "float", w |-> whole, f |-> frac]

FracUnits == 100000

\* a + b, as Python's sum() adds: int + int is an int, anything else a float
NumAdd(a, b) ==
    [t |-> IF a.t = "int" /\ b.t = "int" THEN "int" ELSE "float",
     w |-> a.w + b.w + ((a.f + b.f) \div FracUnits),
     f |-> (a.f + b.f) % FracUnits]

\* a < b
NumLess(a, b) == a.w < b.w \/ (a.w = b.w /\ a.f < b.f)

\* a - b, for b <= a
NumSub(a, b) ==
    [t |-> IF a.t = "int" /\ b.t = "int" THEN "int" ELSE "float",
     w |-> IF a.f >= b.f THEN a.w - b.w ELSE a.w - b.w - 1,
     f |-> IF a.f >= b.f THEN a.f - b.f ELSE a.f + FracUnits - b.f]

Digits == <<"0", "1", "2", "3", "4", "5", "6", "7", "8", "9">>

\* str(n) for an int n >= 0
RECURSIVE Str(_)
Str(n) == IF n < 10 THEN <<Digits[n + 1]>> ELSE Str(n \div 10) \o <<Digits[(n % 10) + 1]>>

\* n / unit rounded to the nearest integer, an exact tie going to the even
\* one: what the format specifications .1f and .3f do to a float that holds
\* the quotient exactly, and to every quotient that is not a tie
RoundHalfEven(n, unit) ==
    LET q == n \div unit
        r == n % unit
    IN  IF 2 * r > unit THEN q + 1
        ELSE IF 2 * r < unit THEN q
        ELSE IF q % 2 = 0 THEN q ELSE q + 1

\* f'{n/unit:.1f}' for an int n
OneDecimal(n, unit) ==
    LET tenths == RoundHalfEven(n, unit \div 10)
    IN  Str(tenths \div 10) \o <<".">> \o Str(tenths % 10)

\* f'{num:.3f}' for a float num
ThreeDecimals(num) ==
    LET th == RoundHalfEven(num.f, FracUnits \div 1000)
        whole == IF th = 1000 THEN num.w + 1 ELSE num.w
        frac == IF th = 1000 THEN 0 ELSE th
    IN  Str(whole) \o <<".">>
            \o <<Digits[(frac \div 100) + 1], Digits[((frac \div 10) % 10) + 1],
                 Digits[(frac % 10) + 1]>>

Million == 1000000
Thousand == 1000

format_number_int_first(num) ==
    IF num.w >= Million THEN OneDecimal(num.w, Million) \o <<"M">>
    ELSE IF num.w >= Thousand THEN OneDecimal(num.w, Thousand) \o <<"K">>
    ELSE IF num.t = "float" THEN ThreeDecimals(num)
    ELSE Str(num.w)

\* _format_number(num), lines 148-155
format_number(num) ==
    IF num.t = "float" THEN ThreeDecimals(num)
    ELSE IF num.w >= Million THEN OneDecimal(num.w, Million) \o <<"M">>
    ELSE IF num.w >= Thousand THEN OneDecimal(num.w, Thousand) \o <<"K">>
    ELSE Str(num.w)

----------------------------------------------------------------------------
(* Chart input *)

\* the values the charts are given, in the order given: each rule of
\* _format_number has its boundary values here, and no value is a quotient
\* or a float that Python would have to round at an inexact tie
ValueList ==
    << PyInt(2500000), PyInt(1500), PyFloat(3, 14159), PyFloat(999, 99960), PyInt(999),
       PyFloat(2500000, 0), PyInt(1000000), PyInt(999999), PyInt(1000), PyFloat(0, 50000),
       PyInt(1250), PyInt(0), PyFloat(1500, 0), PyInt(1049999), PyFloat(0, 6250), PyInt(100) >>

\* the i-th (language, value) pair of the caller's list
DataEntry(i) ==
    << LanguageList[((i - 1) % Len(LanguageList)) + 1],
       ValueList[((i - 1) % Len(ValueList)) + 1] >>

\* the caller's list of n pairs
Data(n) == [i \in 1..n |-> DataEntry(i)]

\* the breakdown callbacks a caller may pass
Callbacks == {"none", "partial", "mixed"}

ManyRepos ==
    << <<"r1", 300>>, <<"r2", 200>>, <<"r3", 100>>, <<"r4", 50>>, <<"r5", 25>>,
       <<"r6", 10>>, <<"r7", 5>> >>

\* get_breakdown(language, top_repos_count): the callback's answer
get_breakdown(cb, language, top) ==
    CASE cb = "none" -> << >>
      [] cb = "partial" -> << <<"A", 40>>, <<"B", 30>> >>
      [] OTHER ->
           IF language = CSharp THEN << >>
           ELSE IF language = ASlashB THEN << <<"A", 900>>, <<"B", 99>> >>
           ELSE SubSeq(ManyRepos, 1, top)

----------------------------------------------------------------------------
(* The chart functions.  c is the badge cache before the call; the result   *)
(* is the cache after it and what was drawn.                                *)

\* languages = [item[0] for item in data]
Names(data) == [i \in 1..Len(data) |-> data[i][1]]

\* y_pos / x_pos = range(len(languages)); ax.barh(y_pos, values) / ax.bar(x_pos, values)
Bars(data) == [i \in 1..Len(data) |-> [pos |-> i - 1, name |-> data[i][1], value |-> data[i][2]]]

\* the value annotation of each bar
Annotations(data) == [i \in 1..Len(data) |-> format_number(data[i][2])]

\* the network during one chart call: every request of the call succeeds, or
\* every one fails in requests.get, or every one in raise_for_status
ChartOutcomes == {"ok", "transport", "status"}

\* for i, language in enumerate(languages): badge or text label at position i
RECURSIVE DrawBadges(_, _, _, _)
DrawBadges(c, langs, k, net) ==
    IF k = 0
    THEN [badge_cache |-> c.badge_cache, disk |-> c.disk, requests |-> c.requests,
          languages |-> c.languages, labels |-> << >>, asked |-> << >>]
    ELSE LET prev == DrawBadges(c, langs, k - 1, net)
             r == download_badge(prev, langs[k], net)
         IN  [badge_cache |-> r.badge_cache, disk |-> r.disk, requests |-> r.requests,
              languages |-> r.languages,
              asked |-> IF r.url # NoUrl THEN Append(prev.asked, langs[k]) ELSE prev.asked,
              labels |-> Append(prev.labels,
                                IF r.ret # None
                                THEN [kind |-> "badge", image |-> r.ret, pos |-> k - 1]
                                ELSE [kind |-> "text", text |-> langs[k], pos |-> k - 1])]

\* if not data: print(...); return
NoChart(c, data) ==
    [badge_cache |-> c.badge_cache, disk |-> c.disk, requests |-> c.requests, asked |-> << >>,
     saved |-> FALSE, data |-> data, bars |-> << >>, annotations |-> << >>,
     labels |-> << >>, inverted |-> FALSE, segments |-> << >>, calls |-> << >>]

\* a chart with one bar per entry of shown, badges or text labels beside them
LabelledBars(c, data, shown, net, segments, calls) ==
    LET d == DrawBadges(c, Names(shown), Len(shown), net)
    IN  [badge_cache |-> d.badge_cache, disk |-> d.disk, requests |-> d.requests,
         asked |-> d.asked, saved |-> TRUE, data |-> data, bars |-> Bars(shown),
         annotations |-> Annotations(shown), labels |-> d.labels,
         inverted |-> TRUE, segments |-> segments, calls |-> calls]

create_leaderboard_capped(c, data, net) ==
    IF data = << >> THEN NoChart(c, data)
    ELSE LabelledBars(c, data, SubSeq(data, 1, IF Len(data) > 15 THEN 15 ELSE Len(data)),
                      net, << >>, << >>)

\* create_leaderboard(data, title, filename, value_label), lines 157-214
create_leaderboard(c, data, net) ==
    IF data = << >> THEN NoChart(c, data)
    ELSE LabelledBars(c, data, data, net, << >>, << >>)

TopReposCount == 5

\* alpha = max(1.0 - j * 0.15, 0.4) for the j-th segment (j from 0), in hundredths
SegmentAlpha(j) == IF 100 - (j * 15) > 40 THEN 100 - (j * 15) ELSE 40

\* left after the first k segments: left = 0; left += lines
RECURSIVE LeftAfter(_, _)
LeftAfter(top_repos, k) ==
    IF k = 0 THEN PyInt(0) ELSE NumAdd(LeftAfter(top_repos, k - 1), PyInt(top_repos[k][2]))

Segments_remainder_on_equal(top_repos, value) ==
    IF top_repos # << >>
    THEN LET stacked == [j \in 1..Len(top_repos) |->
                            [left |-> LeftAfter(top_repos, j - 1),
                             width |-> PyInt(top_repos[j][2]),
                             alpha |-> SegmentAlpha(j - 1)]]
             left == LeftAfter(top_repos, Len(top_repos))
         IN  IF ~NumLess(value, left)
             THEN Append(stacked, [left |-> left, width |-> NumSub(value, left), alpha |-> 25])
             ELSE stacked
    ELSE << [left |-> PyInt(0), width |-> value, alpha |-> 90] >>

\* the bars drawn in row i for a category of the given value, lines 235-272
Segments(top_repos, value) ==
    IF top_repos # << >>
    THEN LET stacked == [j \in 1..Len(top_repos) |->
                            [left |-> LeftAfter(top_repos, j - 1),
                             width |-> PyInt(top_repos[j][2]),
                             alpha |-> SegmentAlpha(j - 1)]]
             left == LeftAfter(top_repos, Len(top_repos))
         IN  IF NumLess(left, value)
             THEN Append(stacked, [left |-> left, width |-> NumSub(value, left), alpha |-> 25])
             ELSE stacked
    ELSE << [left |-> PyInt(0), width |-> value, alpha |-> 90] >>

\* create_leaderboard_with_breakdown(data, ..., get_breakdown, top_repos_count),
\* lines 216-309
create_leaderboard_with_breakdown(c, data, net, cb) ==
    IF data = << >> THEN NoChart(c, data)
    ELSE LabelledBars(c, data, data, net,
             [i \in 1..Len(data) |->
                 Segments(get_breakdown(cb, data[i][1], TopReposCount), data[i][2])],
             [i \in 1..Len(data) |->
                 [language |-> data[i][1], top |-> TopReposCount,
                  top_repos |-> get_breakdown(cb, data[i][1], TopReposCount)]])

TopVertical == 12

create_vertical_bar_no_empty_check(c, data) ==
    LET top_n == IF TopVertical < Len(data) THEN TopVertical ELSE Len(data)
        shown == SubSeq(data, 1, top_n)
    IN  [badge_cache |-> c.badge_cache, disk |-> c.disk, requests |-> c.requests, asked |-> << >>,
         saved |-> TRUE, data |-> data, bars |-> Bars(shown),
         annotations |-> Annotations(shown),
         labels |-> [i \in 1..Len(shown) |-> [kind |-> "tick", text |-> shown[i][1], pos |-> i - 1]],
         inverted |-> FALSE, segments |-> << >>, calls |-> << >>]

\* _create_vertical_bar(data, title, filename, value_label), lines 369-417: the
\* languages are the x tick labels, no badge is resolved
create_vertical_bar(c, data) ==
    IF data = << >> THEN NoChart(c, data)
    ELSE LET top_n == IF TopVertical < Len(data) THEN TopVertical ELSE Len(data)
             shown == SubSeq(data, 1, top_n)
         IN  [badge_cache |-> c.badge_cache, disk |-> c.disk, requests |-> c.requests, asked |-> << >>,
              saved |-> TRUE, data |-> data, bars |-> Bars(shown),
              annotations |-> Annotations(shown),
              labels |-> [i \in 1..Len(shown) |->
                             [kind |-> "tick", text |-> shown[i][1], pos |-> i - 1]],
              inverted |-> FALSE, segments |-> << >>, calls |-> << >>]

TopHorizontal == 15

\* _create_simple_horizontal_bar(data, title, filename, value_label), lines 441-502
create_simple_horizontal_bar(c, data, net) ==
    IF data = << >> THEN NoChart(c, data)
    ELSE LET top_n == IF TopHorizontal < Len(data) THEN TopHorizontal ELSE Len(data)
         IN  LabelledBars(c, data, SubSeq(data, 1, top_n), net, << >>, << >>)

TopPie == 5

\* sum(item[1] for item in items): Python's sum starts from the int 0
RECURSIVE SumValues(_, _)
SumValues(items, k) ==
    IF k = 0 THEN PyInt(0) ELSE NumAdd(SumValues(items, k - 1), items[k][2])

Other == <<"O", "t", "h", "e", "r">>

pie_top_data_aliased(data) ==
    IF Len(data) > TopPie
    THEN LET other_value == SumValues(SubSeq(data, TopPie + 1, Len(data)),
                                      Len(data) - TopPie)
         IN  [top_data |-> Append(data, <<Other, other_value>>),
              data |-> Append(data, <<Other, other_value>>)]
    ELSE [top_data |-> data, data |-> data]

\* lines 534-539: top_data is a new list (a slice), so appending to it leaves
\* the caller's list as it was
pie_top_data(data) ==
    LET top_n == TopPie
        top_data == SubSeq(data, 1, IF top_n < Len(data) THEN top_n ELSE Len(data))
    IN  IF Len(data) > top_n
        THEN LET other_value == SumValues(SubSeq(data, top_n + 1, Len(data)),
                                          Len(data) - top_n)
             IN  [top_data |-> Append(top_data, <<Other, other_value>>), data |-> data]
        ELSE [top_data |-> top_data, data |-> data]

\* _create_pie_chart(data, title, filename, donut), lines 528-583: one wedge
\* per entry of top_data, in order; no badge is resolved
create_pie_chart(c, data) ==
    IF data = << >> THEN NoChart(c, data)
    ELSE LET t == pie_top_data(data)
         IN  [badge_cache |-> c.badge_cache, disk |-> c.disk, requests |-> c.requests, asked |-> << >>,
              saved |-> TRUE, data |-> t.data, bars |-> Bars(t.top_data),
              annotations |-> << >>,
              labels |-> [i \in 1..Len(t.top_data) |->
                             [kind |-> "wedge", text |-> t.top_data[i][1], pos |-> i - 1]],
              inverted |-> FALSE, segments |-> << >>, calls |-> << >>]

----------------------------------------------------------------------------
(* Operations *)

\* Visualizer(output_dir, dark_mode) on an output directory that holds, at
\* most, one cache file an earlier run left unreadable
\* plt.rcParams of a process that has constructed no Visualizer yet:
\* matplotlib's own defaults for the keys the light branch leaves alone
rcDefaults == [text_color |-> "black", xtick_color |-> "black", ytick_color |-> "black"]

\* _setup_modern_style, lines 34-47: the dark branch sets text.color,
\* xtick.color and ytick.color, the light branch sets none of them
setup_modern_style(rc, dark) ==
    IF dark
    THEN [text_color |-> "#e6edf3", xtick_color |-> "#e6edf3", ytick_color |-> "#e6edf3"]
    ELSE rc

\* the theme properties of the instance, lines 54-68
text_color == IF dark_mode THEN "#e6edf3" ELSE "#333333"
stroke_color == IF dark_mode THEN "#0d1117" ELSE "white"
spine_color == IF dark_mode THEN "#30363d" ELSE "#d0d0d0"
figure_facecolor == IF dark_mode THEN "#0d1117" ELSE "white"

\* the text a chart of this kind draws, each with the color it is drawn in:
\* an explicit color= argument, or the rcParams entry matplotlib falls back
\* to when the call passes none
TextElements(kind, labels) ==
    LET fallback == \E i \in 1..Len(labels) : labels[i].kind = "text"
        annotation == [role |-> "annotation", color |-> text_color, stroke |-> stroke_color]
        axis_label == [role |-> "axis_label", color |-> text_color, stroke |-> "none"]
        plain(role, color) == [role |-> role, color |-> color, stroke |-> "none"]
    IN  CASE kind \in {"leaderboard", "breakdown"} ->
                 {annotation, axis_label, plain("xtick", rcParams.xtick_color)}
                 \cup (IF fallback THEN {plain("fallback", rcParams.text_color)} ELSE {})
          [] kind = "horizontal" ->
                 {annotation, axis_label, plain("xtick", rcParams.xtick_color)}
                 \cup (IF fallback THEN {plain("fallback", text_color)} ELSE {})
          [] kind = "vertical" ->
                 {annotation, axis_label, plain("xtick", rcParams.xtick_color),
                  plain("ytick", rcParams.ytick_color)}
          [] OTHER ->
                 {plain("wedge_label", rcParams.text_color),
                  [role |-> "autotext", color |-> "white", stroke |-> "#00000050"]}

Init ==
    /\ languages \in LanguageTables
    /\ dark_mode \in BOOLEAN
    /\ rcParams = setup_modern_style(rcDefaults, dark_mode)
    /\ badge_cache = << >>
    /\ \E broken \in {{}} \cup {{badge_file(l)} : l \in Languages} :
           disk = [f \in broken |-> Corrupt]
    /\ requests = 0
    /\ last = [op |-> "init"]

\* a later Visualizer(output_dir, dark_mode) on the same output directory
NewVisualizer(dark) ==
    /\ last.op \in {"init", "idle"}
    /\ badge_cache' = << >>
    /\ dark_mode' = dark
    /\ rcParams' = setup_modern_style(rcParams, dark)
    /\ last' = [op |-> "init"]
    /\ UNCHANGED <<languages, disk, requests>>

\* self._download_badge(language)
Resolve(language, o) ==
    /\ last.op \in {"init", "idle"}
    /\ IF NeedsFetch(Cache, language) THEN requests < MaxRequests ELSE o = "ok"
    /\ LET r == download_badge(Cache, language, o)
       IN  /\ badge_cache' = r.badge_cache
           /\ disk' = r.disk
           /\ requests' = r.requests
           /\ last' = [op |-> "resolve", language |-> language,
                       cached |-> language \in DOMAIN badge_cache,
                       file |-> FileKind(disk, language),
                       outcome |-> IF r.url = NoUrl THEN "none" ELSE o,
                       url |-> r.url, ret |-> r.ret]
    /\ UNCHANGED <<languages, dark_mode, rcParams>>

\* a chart function has returned r for the list given: the state it leaves
Drawn(kind, filename, given, net, r) ==
    /\ last.op \in {"init", "idle"}
    /\ r.requests <= MaxChartRequests
    /\ r.requests = requests => net = "ok"
    /\ badge_cache' = r.badge_cache
    /\ disk' = r.disk
    /\ requests' = r.requests
    /\ last' = [op |-> "chart", kind |-> kind, filename |-> filename, given |-> given,
                net |-> IF r.requests = requests THEN "none" ELSE net,
                asked |-> r.asked, saved |-> r.saved, data |-> r.data, bars |-> r.bars,
                annotations |-> r.annotations, labels |-> r.labels,
                inverted |-> r.inverted, segments |-> r.segments, calls |-> r.calls,
                text |-> IF r.saved THEN TextElements(kind, r.labels) ELSE {},
                spine |-> IF r.saved /\ kind \notin {"pie", "donut"} THEN spine_color
                                                                     ELSE "none",
                facecolor |-> IF r.saved THEN figure_facecolor ELSE "none"]
    /\ UNCHANGED <<languages, dark_mode, rcParams>>

\* self.create_leaderboard(data, title, 'leaderboard_by_repos.png', value_label)
Leaderboard(n, net) ==
    Drawn("leaderboard", "leaderboard_by_repos.png", Data(n), net,
          create_leaderboard(Cache, Data(n), net))

\* self.create_leaderboard_with_breakdown(data, title, 'leaderboard_by_lines.png',
\*                                        value_label, get_breakdown)
LeaderboardWithBreakdown(n, net, cb) ==
    Drawn("breakdown", "leaderboard_by_lines.png", Data(n), net,
          create_leaderboard_with_breakdown(Cache, Data(n), net, cb))

\* self._create_vertical_bar(data, title, 'bar_by_repos.png', value_label)
VerticalBar(n) ==
    Drawn("vertical", "bar_by_repos.png", Data(n), "ok",
          create_vertical_bar(Cache, Data(n)))

\* self._create_simple_horizontal_bar(data, title, 'horizontal_bar_by_repos.png',
\*                                    value_label)
SimpleHorizontalBar(n, net) ==
    Drawn("horizontal", "horizontal_bar_by_repos.png", Data(n), net,
          create_simple_horizontal_bar(Cache, Data(n), net))

\* self._create_pie_chart(data, title, 'pie_by_repos.png' or 'donut_by_repos.png', donut)
PieChart(n, donut) ==
    Drawn(IF donut THEN "donut" ELSE "pie",
          IF donut THEN "donut_by_repos.png" ELSE "pie_by_repos.png",
          Data(n), "ok", create_pie_chart(Cache, Data(n)))

\* the caller has taken what the call returned; the next call starts here
Return ==
    /\ last.op \in {"resolve", "chart"}
    /\ last' = [op |-> "idle"]
    /\ UNCHANGED <<languages, dark_mode, badge_cache, disk, requests, rcParams>>

NextBadges ==
    \/ \E dark \in BOOLEAN : NewVisualizer(dark)
    \/ Return
    \/ \E language \in Languages, o \in Outcomes : Resolve(language, o)

\* the badge resolver alone: any sequence of constructions and resolve calls
SpecBadges == Init /\ [][NextBadges]_vars

NextCharts ==
    \/ \E dark \in BOOLEAN : NewVisualizer(dark)
    \/ Return
    \/ \E n \in 0..MaxData, net \in ChartOutcomes : Leaderboard(n, net)
    \/ \E n \in 0..MaxData, net \in ChartOutcomes, cb \in Callbacks :
           LeaderboardWithBreakdown(n, net, cb)
    \/ \E n \in 0..MaxData : VerticalBar(n)
    \/ \E n \in 0..MaxData, net \in ChartOutcomes : SimpleHorizontalBar(n, net)
    \/ \E n \in 0..MaxData, donut \in BOOLEAN : PieChart(n, donut)

\* Visualizer(output_dir, dark_mode) on an output directory with no badge
\* cache yet
InitCharts == Init /\ disk = << >>

\* the chart renderer: any sequence of constructions and chart calls
SpecCharts == InitCharts /\ [][NextCharts]_vars

Next == NextBadges \/ NextCharts

Spec == Init /\ [][Next]_vars

----------------------------------------------------------------------------
(* The badge resolver's claims, under SpecBadges *)

\* a badge_color / logo entry that the code's truth tests accept
Configured(table, language, key) ==
    /\ language \in DOMAIN table
    /\ key \in DOMAIN table[language]
    /\ table[language][key] # ""

HasToken(url, t) == \E i \in 1..Len(url) : url[i] = t

HasLogoParam(url, logo) ==
    \E i \in 1..(Len(url) - 1) : url[i] = "&logo=" /\ url[i + 1] = logo

\* C1: a resolve issues a network request (one) only when badge_cache has no
\* entry for the language and no decodable file is at its cache path; a
\* decodable cache file stays one; and a successful fetch leaves both a
\* memory entry and a decodable file. So once a language has been resolved
\* successfully, no later resolve of it, by this or by a later Visualizer on
\* the same output directory, issues another request: the count stays.
C1_FetchOnlyOnMiss ==
    [][/\ requests' # requests =>
             /\ requests' = requests + 1
             /\ last'.op = "resolve"
             /\ last'.language \notin DOMAIN badge_cache
             /\ FileKind(disk, last'.language) # "image"
       /\ \A l \in Languages :
             FileKind(disk, l) = "image" => FileKind(disk', l) = "image"
       /\ (last'.op = "resolve" /\ last'.outcome = "ok") =>
             /\ last'.language \in DOMAIN badge_cache'
             /\ FileKind(disk', last'.language) = "image"
      ]_vars

\* C1 witness: a language fetched once is resolved again by a Visualizer
\* whose badge_cache does not hold it, from the cache file, and its request
\* count is still 1
C1_Witness ==
    /\ last.op = "resolve"
    /\ ~last.cached
    /\ last.file = "image"
    /\ last.url = NoUrl
    /\ last.ret = Badge(get_badge_url(languages, last.language))
    /\ requests = 1

\* C2 (as claimed): every badge_cache entry and the cache file of its
\* language hold the same image, and it is the image served for the URL
\* derived from that language name
C2_SameImageFromOwnUrl ==
    \A l \in DOMAIN badge_cache :
        /\ badge_file(l) \in DOMAIN disk
        /\ disk[badge_file(l)] = badge_cache[l]
        /\ badge_cache[l] = Badge(get_badge_url(languages, l))

\* C4: a resolve that finds an undecodable file at the cache path, and no
\* memory entry, requests the language's URL; the returned image and the
\* memory entry are the fetched image when the fetch succeeds and there is
\* neither when it fails; and a file is still at the cache path afterwards
C4_CorruptFileBypassed ==
    (last.op = "resolve" /\ ~last.cached /\ last.file = "corrupt") =>
        LET l == last.language
            url == get_badge_url(languages, l)
        IN  /\ last.url = url
            /\ last.outcome \in Outcomes
            /\ FileKind(disk, l) # "none"
            /\ last.outcome = "ok" =>
                  /\ last.ret = Badge(url)
                  /\ l \in DOMAIN badge_cache /\ badge_cache[l] = Badge(url)
                  /\ FileKind(disk, l) = "image"
            /\ last.outcome # "ok" =>
                  /\ last.ret = None
                  /\ l \notin DOMAIN badge_cache

\* C4 witness: a fetch made over an undecodable cache file has failed, and
\* the file is still there
C4_Witness ==
    /\ last.op = "resolve"
    /\ ~last.cached
    /\ last.file = "corrupt"
    /\ last.outcome = "transport"
    /\ FileKind(disk, last.language) = "corrupt"

\* C5: the cache key is the name with every space and every slash replaced
\* by an underscore; no cache file name holds a space or a slash; a
\* successful fetch writes the file named by that key; and "C#",
\* "Objective-C" and "Visual Basic .NET" have pairwise different keys
C5_SafeCacheKey ==
    /\ \A l \in Languages :
          /\ Len(safe_name(l)) = Len(l)
          /\ \A i \in 1..Len(l) :
                safe_name(l)[i] = IF l[i] \in {" ", "/"} THEN "_" ELSE l[i]
    /\ \A f \in DOMAIN disk : \A i \in 1..Len(f) : f[i] \notin {"/", " "}
    /\ (last.op = "resolve" /\ last.outcome = "ok") =>
          [i \in 1..Len(last.language) |->
              IF last.language[i] \in {" ", "/"} THEN "_" ELSE last.language[i]]
            \o <<".png">> \in DOMAIN disk
    /\ safe_name(CSharp) # safe_name(ObjectiveC)
    /\ safe_name(CSharp) # safe_name(VisualBasic)
    /\ safe_name(ObjectiveC) # safe_name(VisualBasic)

\* C5 witness: the badge of "A/B" has been fetched and saved as A_B.png
C5_Witness ==
    /\ last.op = "resolve"
    /\ last.language = ASlashB
    /\ last.outcome = "ok"
    /\ <<"A", "_", "B", ".png">> \in DOMAIN disk

\* C6: the URL requested for a language holds the configured badge color and
\* the logo parameter with the configured logo id when both are configured;
\* the configured badge color and no logo parameter when only the badge color
\* is; and the gray 888888 and no logo parameter when no badge color is
\* configured, whether or not a logo id is
C6_BadgeUrl ==
    (last.op = "resolve" /\ last.url # NoUrl) =>
        LET l == last.language
            url == last.url
            hasColor == Configured(languages, l, "badge_color")
            hasLogo == Configured(languages, l, "logo")
        IN  /\ (hasColor /\ hasLogo) =>
                  /\ HasToken(url, languages[l]["badge_color"])
                  /\ HasLogoParam(url, languages[l]["logo"])
            /\ (hasColor /\ ~hasLogo) =>
                  /\ HasToken(url, languages[l]["badge_color"])
                  /\ ~HasToken(url, "&logo=")
            /\ ~hasColor =>
                  /\ HasToken(url, "888888")
                  /\ ~HasToken(url, "&logo=")

\* C6 witness: a URL has been requested for a language with a logo id and no
\* badge color configured
C6_Witness ==
    /\ last.op = "resolve"
    /\ last.url # NoUrl
    /\ Configured(languages, last.language, "logo")
    /\ ~Configured(languages, last.language, "badge_color")

----------------------------------------------------------------------------
(* The chart renderer's claims, under SpecCharts *)

\* whether a resolve of language l reaches the network from badge cache b and
\* cache directory d
Uncached(b, d, l) == l \notin DOMAIN b /\ FileKind(d, l) # "image"

IsDigit(ch) == \E d \in 1..10 : Digits[d] = ch

DigitValue(ch) == (CHOOSE d \in 1..10 : Digits[d] = ch) - 1

\* the number a string of decimal digits denotes
RECURSIVE ParseNat(_)
ParseNat(s) ==
    IF s = << >> THEN 0
    ELSE (ParseNat(SubSeq(s, 1, Len(s) - 1)) * 10) + DigitValue(s[Len(s)])

\* s is digits, with no leading zero unless it is "0"
PlainNat(s) ==
    /\ Len(s) >= 1
    /\ \A i \in 1..Len(s) : IsDigit(s[i])
    /\ (Len(s) > 1 => s[1] # "0")

\* s is <digits>.<d digits>
FixedPoint(s, d) ==
    /\ Len(s) >= d + 2
    /\ s[Len(s) - d] = "."
    /\ PlainNat(SubSeq(s, 1, Len(s) - d - 1))
    /\ \A i \in (Len(s) - d + 1)..Len(s) : IsDigit(s[i])

WholePart(s, d) == ParseNat(SubSeq(s, 1, Len(s) - d - 1))
FracPart(s, d) == ParseNat(SubSeq(s, Len(s) - d + 1, Len(s)))

Within(x, y, slack) == x - y <= slack /\ y - x <= slack

\* text is the label the claimed rules give the value num
LabelFollowsRules(num, text) ==
    IF num.t = "float"
    THEN /\ FixedPoint(text, 3)
         /\ Within(((WholePart(text, 3) - num.w) * 100000) + (FracPart(text, 3) * 100),
                   num.f, 50)
    ELSE IF num.w >= 1000000
    THEN /\ text[Len(text)] = "M"
         /\ LET body == SubSeq(text, 1, Len(text) - 1)
            IN  /\ FixedPoint(body, 1)
                /\ Within(((WholePart(body, 1) * 10) + FracPart(body, 1)) * 100000,
                          num.w, 50000)
    ELSE IF num.w >= 1000
    THEN /\ text[Len(text)] = "K"
         /\ LET body == SubSeq(text, 1, Len(text) - 1)
            IN  /\ FixedPoint(body, 1)
                /\ Within(((WholePart(body, 1) * 10) + FracPart(body, 1)) * 100,
                          num.w, 50)
    ELSE PlainNat(text) /\ ParseNat(text) = num.w

\* C3: in a chart call whose fetches fail (in transport or by HTTP status),
\* every category whose badge is in neither cache layer gets the plain-text
\* label of its language at its position, neither layer gains an entry for
\* it, exactly those categories were requested, every other category gets
\* its badge, and the chart is saved
C3_FetchFailureFallsBackToText ==
    [][(last'.op = "chart" /\ last'.net \in {"transport", "status"}) =>
          /\ last'.saved
          /\ Len(last'.labels) = Len(last'.bars)
          /\ last'.asked =
                SelectSeq([i \in 1..Len(last'.bars) |-> last'.bars[i].name],
                          LAMBDA l : Uncached(badge_cache, disk, l))
          /\ requests' = requests + Len(last'.asked)
          /\ \A i \in 1..Len(last'.bars) :
                LET l == last'.bars[i].name
                IN  IF Uncached(badge_cache, disk, l)
                    THEN /\ last'.labels[i].kind = "text"
                         /\ last'.labels[i].text = l
                         /\ last'.labels[i].pos = last'.bars[i].pos
                         /\ l \notin DOMAIN badge_cache'
                         /\ FileKind(disk', l) = FileKind(disk, l)
                    ELSE last'.labels[i].kind = "badge"
      ]_vars

\* C3 witness: a saved chart with a text label where the fetch failed by HTTP
\* status, next to a badge from the cache
C3_Witness ==
    /\ last.op = "chart"
    /\ last.net = "status"
    /\ last.saved
    /\ \E i, j \in 1..Len(last.labels) :
          /\ last.labels[i].kind = "text"
          /\ last.labels[j].kind = "badge"

\* C7: every value label follows the rules in their order: a float gets 3
\* decimal places and no suffix whatever its size; an int >= 1,000,000 is
\* shown in millions with 1 decimal place and M; any other int >= 1,000 in
\* thousands with 1 decimal place and K; any other int as its decimal string.
\* 999 gives "999", 1500 "1.5K", 2500000 "2.5M", 3.14159 "3.142".
C7_FormatRules ==
    last.op = "chart" =>
        \A i \in 1..Len(last.annotations) :
            LET num == last.bars[i].value
                text == last.annotations[i]
            IN  /\ LabelFollowsRules(num, text)
                /\ num = PyInt(999) => text = <<"9", "9", "9">>
                /\ num = PyInt(1500) => text = <<"1", ".", "5", "K">>
                /\ num = PyInt(2500000) => text = <<"2", ".", "5", "M">>
                /\ num = PyFloat(3, 14159) => text = <<"3", ".", "1", "4", "2">>

\* C7 witness: a chart labels the float 2500000.0 as 2500000.000 and the int
\* 2500000 as 2.5M
C7_Witness ==
    /\ last.op = "chart"
    /\ \E i, j \in 1..Len(last.annotations) :
          /\ last.bars[i].value = PyFloat(2500000, 0)
          /\ last.annotations[i] = <<"2", "5", "0", "0", "0", "0", "0", ".", "0", "0", "0">>
          /\ last.bars[j].value = PyInt(2500000)
          /\ last.annotations[j] = <<"2", ".", "5", "M">>

\* C8: a chart function given an empty list saves nothing, draws nothing,
\* requests nothing, leaves both cache layers as they were and does not call
\* the breakdown callback
C8_EmptyDataNoOp ==
    [][(last'.op = "chart" /\ last'.given = << >>) =>
          /\ ~last'.saved
          /\ last'.bars = << >> /\ last'.labels = << >> /\ last'.segments = << >>
          /\ last'.asked = << >>
          /\ last'.calls = << >>
          /\ UNCHANGED <<badge_cache, disk, requests>>
      ]_vars

\* C8 witness: the breakdown leaderboard has returned from an empty list
\* without saving, on a Visualizer that has still not resolved any badge
C8_Witness ==
    /\ last.op = "chart"
    /\ last.kind = "breakdown"
    /\ last.given = << >>
    /\ ~last.saved
    /\ last.calls = << >>
    /\ badge_cache = << >>

\* C9: a bar chart of a non-empty list of n entries draws the first
\* min(cap, n) entries, entry i at position i - 1 counted from the top
\* (horizontal, y axis inverted) or from the left (vertical), with its label at
\* the same position: cap is 12 for the vertical chart, 15 for the simple
\* horizontal chart, and n for the leaderboard and the breakdown leaderboard
C9_FirstEntriesInOrder ==
    (last.op = "chart" /\ last.given # << >>
        /\ last.kind \in {"leaderboard", "breakdown", "vertical", "horizontal"}) =>
        LET n == Len(last.given)
            cap == CASE last.kind = "vertical" -> 12
                     [] last.kind = "horizontal" -> 15
                     [] OTHER -> n
            shown == IF cap < n THEN cap ELSE n
        IN  /\ Len(last.bars) = shown
            /\ Len(last.labels) = shown
            /\ last.inverted = (last.kind # "vertical")
            /\ \A i \in 1..shown :
                  /\ last.bars[i] = [pos |-> i - 1, name |-> last.given[i][1],
                                     value |-> last.given[i][2]]
                  /\ last.labels[i].pos = i - 1
                  /\ last.labels[i].kind \in {"text", "tick"} =>
                        last.labels[i].text = last.given[i][1]
                  /\ last.labels[i].kind = "badge" =>
                        last.labels[i].image = badge_cache[last.given[i][1]]

\* C9 witness: the leaderboard has drawn all of 16 entries
C9_Witness ==
    /\ last.op = "chart"
    /\ last.kind = "leaderboard"
    /\ Len(last.given) = 16
    /\ Len(last.bars) = 16
    /\ last.bars[16].name = last.given[16][1]

\* the sum of the values of a list of wedges or entries
RECURSIVE Total(_)
Total(values) ==
    IF values = << >> THEN PyInt(0)
    ELSE NumAdd(Total(SubSeq(values, 1, Len(values) - 1)), values[Len(values)])

SameNumber(a, b) == a.w = b.w /\ a.f = b.f

\* C10: the pie/donut chart of a non-empty list of n entries draws the first
\* min(5, n) entries in order and, exactly when n > 5, a last wedge "Other"
\* whose value is the sum of the entries after the fifth: min(n, 6) wedges,
\* whose values sum to the sum of the input, and the caller's list is as given
C10_PieTopFivePlusOther ==
    (last.op = "chart" /\ last.kind \in {"pie", "donut"} /\ last.given # << >>) =>
        LET n == Len(last.given)
            top == IF n < 5 THEN n ELSE 5
        IN  /\ Len(last.bars) = (IF n < 6 THEN n ELSE 6)
            /\ \A i \in 1..top :
                  last.bars[i] = [pos |-> i - 1, name |-> last.given[i][1],
                                  value |-> last.given[i][2]]
            /\ n > 5 =>
                  /\ last.bars[6].name = <<"O", "t", "h", "e", "r">>
                  /\ last.bars[6].pos = 5
                  /\ SameNumber(last.bars[6].value,
                                Total([i \in 1..(n - 5) |-> last.given[i + 5][2]]))
            /\ SameNumber(Total([i \in 1..Len(last.bars) |-> last.bars[i].value]),
                          Total([i \in 1..n |-> last.given[i][2]]))
            /\ last.data = last.given
            /\ last.saved

\* C10 witness: 7 entries have given a donut of 6 wedges, the last one Other
C10_Witness ==
    /\ last.op = "chart"
    /\ last.kind = "donut"
    /\ Len(last.given) = 7
    /\ Len(last.bars) = 6
    /\ last.bars[6].name = Other
    /\ last.bars[6].value = NumAdd(last.given[6][2], last.given[7][2])

\* the right edge of a drawn segment
RightEdge(seg) == NumAdd(seg.left, seg.width)

\* the first k segments of a row are the callback's entries in callback
\* order, the first at 0 and each next one where the previous one ends
Adjacent(row, top_repos) ==
    /\ Len(row) >= Len(top_repos)
    /\ \A j \in 1..Len(top_repos) :
          /\ SameNumber(row[j].width, PyInt(top_repos[j][2]))
          /\ IF j = 1 THEN SameNumber(row[j].left, PyInt(0))
                      ELSE SameNumber(row[j].left, RightEdge(row[j - 1]))

\* C11: in the breakdown leaderboard, each category of total v whose callback
\* answer is non-empty is drawn as the answer's entries, adjacent from 0 in
\* callback order, followed by one remainder segment of width v minus their
\* sum exactly when the sum is less than v; a category whose callback answer
\* is empty is drawn as one plain bar of width v
C11_BreakdownSegments ==
    (last.op = "chart" /\ last.kind = "breakdown" /\ last.given # << >>) =>
        /\ Len(last.segments) = Len(last.given)
        /\ Len(last.calls) = Len(last.given)
        /\ \A i \in 1..Len(last.given) :
              LET v == last.given[i][2]
                  top_repos == last.calls[i].top_repos
                  row == last.segments[i]
                  k == Len(top_repos)
              IN  /\ last.calls[i].language = last.given[i][1]
                  /\ IF top_repos = << >>
                     THEN /\ Len(row) = 1
                          /\ SameNumber(row[1].left, PyInt(0))
                          /\ SameNumber(row[1].width, v)
                     ELSE /\ Adjacent(row, top_repos)
                          /\ IF NumLess(RightEdge(row[k]), v)
                             THEN /\ Len(row) = k + 1
                                  /\ SameNumber(row[k + 1].left, RightEdge(row[k]))
                                  /\ SameNumber(RightEdge(row[k + 1]), v)
                             ELSE Len(row) = k

\* C11 witness: a breakdown chart of 16 categories whose callback answers
\* 40 and 30 has drawn the category of total 100 as 40, 30 and a remainder
\* of 30, and the category of total 0 as the two segments alone
C11_Witness ==
    /\ last.op = "chart" /\ last.kind = "breakdown" /\ Len(last.given) = 16
    /\ last.given[16][2] = PyInt(100)
    /\ last.calls[16].top_repos = << <<"A", 40>>, <<"B", 30>> >>
    /\ Len(last.segments[16]) = 3
    /\ last.segments[16][1].left = PyInt(0) /\ last.segments[16][1].width = PyInt(40)
    /\ last.segments[16][2].left = PyInt(40) /\ last.segments[16][2].width = PyInt(30)
    /\ last.segments[16][3].left = PyInt(70) /\ last.segments[16][3].width = PyInt(30)
    /\ Len(last.segments[12]) = 2

\* C13: every language with an entry in badge_cache has a file at its cache
\* path, and a resolve whose save failed has returned None and left the
\* language out of badge_cache
C13_MemoryEntryHasFile ==
    /\ \A l \in DOMAIN badge_cache : badge_file(l) \in DOMAIN disk
    /\ (last.op = "resolve" /\ last.outcome \in {"save_fail", "save_partial"}) =>
          /\ last.ret = None
          /\ last.language \notin DOMAIN badge_cache

\* C13 witness: after one badge was fetched and stored, the save of a second
\* one has failed without writing: the resolve returned None, the language
\* has neither a memory entry nor a file, and the first entry has its file
C13_Witness ==
    /\ last.op = "resolve" /\ last.outcome = "save_fail" /\ last.ret = None
    /\ last.language \notin DOMAIN badge_cache
    /\ badge_file(last.language) \notin DOMAIN disk
    /\ \E l \in DOMAIN badge_cache : disk[badge_file(l)] = badge_cache[l]

\* C12: every chart is saved on the figure background of the theme of the
\* instance that draws it, its spines have the theme's spine color, its value
\* annotations the theme's stroke color, and every text element of it,
\* the plain-text label drawn in place of a missing badge included, is
\* drawn in the theme's text color
C12_ThemeColors ==
    (last.op = "chart" /\ last.saved) =>
        /\ last.facecolor = figure_facecolor
        /\ last.spine \in {"none", spine_color}
        /\ \A e \in last.text :
              /\ e.role = "annotation" => e.stroke = stroke_color
              /\ e.color = text_color

====
